---- MODULE Spec2Model ----
(***************************************************************************)
(* Ra'yee backend (src/main.py): startup loading of the Gemini credential  *)
(* pool, the credential-rotation loop of process_image_with_gemini, the    *)
(* text sanitizer clean_text_for_tts and the two upload handlers /api-am   *)
(* and /api-ti.                                                            *)
(*                                                                         *)
(* The handlers are asyncio coroutines on one event loop: a step of the    *)
(* model is the code a coroutine runs between two await points             *)
(* (image.read() and generate_content_async).  gTTS is a blocking call, so *)
(* everything after the vision model's answer is one step.                 *)
(*                                                                         *)
(* Text is a sequence of characters.  "a" stands for any character that is *)
(* neither whitespace nor one of the stripped markers, "*" for the markers *)
(* the sanitizer removes, " " for whitespace.                              *)
(***************************************************************************)
EXTENDS Integers, Sequences, FiniteSets, TLC

\* ---------------------------------------------------------------- bounds
\* Longest text the vision model returns in the model.
MaxTextLen == 1

\* ------------------------------------------------------------- constants
\* The five GEMINI_API_KEY_1..5 slots.
NumSlots == 5

Slots == 1..NumSlots

None == "None"

\* The key stored in slot i when the slot is set to a non-empty string.
KeyOf(i) == <<"k1", "k2", "k3", "k4", "k5">>[i]

\* What os.getenv returns for slot i: None (unset), "" (set but empty), a key.
SlotValues(i) == {None, "", KeyOf(i)}

Chars == {"a", "*", " "}

Endpoints == {"/api-am", "/api-ti"}

\* The requests that may be in flight together: one per endpoint, named by
\* its route.  A slot is reused by the next request once it has responded.
Requests == Endpoints

\* Exceptions one generate_content_async attempt can raise.
UpstreamErrors == {"quota exceeded", "connection reset"}

\* Exceptions gTTS can raise.
TtsErrors == {"tts failed"}

\* All texts of length at most n.
RECURSIVE TextsUpTo(_)
TextsUpTo(n) ==
    IF n = 0 THEN {<<>>}
    ELSE LET shorter == TextsUpTo(n - 1)
         IN  shorter \cup {Append(t, c) : t \in shorter, c \in Chars}

RawTexts == TextsUpTo(MaxTextLen)

\* ------------------------------------------------------------ pure code
\* `if key` of the list comprehension: None and "" are falsy.
Truthy_NotNone(key) == key # None

Truthy(key) == key \notin {None, ""}

\* [key for key in API_KEYS if key]
RECURSIVE FilterKeys(_)
FilterKeys(keys) ==
    IF keys = <<>> THEN <<>>
    ELSE IF Truthy(Head(keys)) THEN <<Head(keys)>> \o FilterKeys(Tail(keys))
         ELSE FilterKeys(Tail(keys))

IsSpace(c) == c = " "

\* The character class [\*\#\-].
IsMarkdown(c) == c \in {"*", "#", "-"}

RECURSIVE LStrip(_)
LStrip(t) ==
    IF t = <<>> THEN <<>>
    ELSE IF IsSpace(Head(t)) THEN LStrip(Tail(t)) ELSE t

RECURSIVE RStrip(_)
RStrip(t) ==
    IF t = <<>> THEN <<>>
    ELSE IF IsSpace(t[Len(t)]) THEN RStrip(SubSeq(t, 1, Len(t) - 1)) ELSE t

\* str.strip()
Strip(t) == RStrip(LStrip(t))

\* re.sub(r'[\*\#\-]', '', text)
RemoveMarkdown(t) == SelectSeq(t, LAMBDA c : ~IsMarkdown(c))

\* re.sub(r'\s+', ' ', text)
RECURSIVE CollapseSpaces(_)
CollapseSpaces(t) ==
    IF t = <<>> THEN <<>>
    ELSE IF IsSpace(Head(t))
         THEN <<" ">> \o CollapseSpaces(LStrip(Tail(t)))
         ELSE <<Head(t)>> \o CollapseSpaces(Tail(t))

clean_text_for_tts(text) == Strip(CollapseSpaces(RemoveMarkdown(text)))

\* text.encode('utf-8') on the model's characters.
Utf8(c) == CASE c = "a" -> 97 [] c = "*" -> 42 [] c = " " -> 32

\* The "=" padding character, after the 64 sextet values 0..63.
Pad == 64

\* base64.b64encode: three bytes become four sextets, "=" pads the tail.
RECURSIVE B64(_)
B64(bytes) ==
    IF Len(bytes) = 0 THEN <<>>
    ELSE IF Len(bytes) = 1
         THEN LET n == bytes[1] * 65536
              IN  <<n \div 262144, (n \div 4096) % 64, Pad, Pad>>
    ELSE IF Len(bytes) = 2
         THEN LET n == bytes[1] * 65536 + bytes[2] * 256
              IN  <<n \div 262144, (n \div 4096) % 64, (n \div 64) % 64, Pad>>
    ELSE LET n == bytes[1] * 65536 + bytes[2] * 256 + bytes[3]
         IN  <<n \div 262144, (n \div 4096) % 64, (n \div 64) % 64, n % 64>>
             \o B64(SubSeq(bytes, 4, Len(bytes)))

\* base64.b64encode(text.encode('utf-8')).decode('utf-8')
EncodeHeader(text) == B64([i \in 1..Len(text) |-> Utf8(text[i])])

\* -------------------------------------------------------------- state
VARIABLES
    environ,         \* os.environ restricted to the five slots
    API_KEYS,        \* module global, line 41
    VALID_API_KEYS,  \* module global, line 50: the credential pool
    phase,           \* "boot", "serving" or "startup_failed"
    genai_api_key,   \* the process-wide key set by genai.configure
    pc,              \* per request: "idle", "reading", "awaiting", "done"
    filename,        \* per request: image.filename
    index,           \* per request: loop index of process_image_with_gemini
    last_error,      \* per request: local last_error
    response,        \* per request: the HTTP response sent
    wire             \* per request: what was observed on the network

vars == <<environ, API_KEYS, VALID_API_KEYS, phase, genai_api_key, pc,
          filename, index, last_error, response, wire>>

\* An exception value; status_code is 0 unless it is an HTTPException.
Exc(type, status_code, msg) ==
    [type |-> type, status_code |-> status_code, msg |-> msg]

NoError == Exc(None, 0, "")

HTTPException(status_code, detail) == Exc("HTTPException", status_code, detail)

Exception(msg) == Exc("Exception", 0, msg)

\* Outcome of one vision-model call: text on success, err on failure.
Outcome(ok, text, err) == [ok |-> ok, text |-> text, err |-> err]

NoOutcome == Outcome(FALSE, <<>>, None)

\* Nothing observed yet for a request.
NoTraffic ==
    [calls |-> <<>>,       \* key of each vision-model call, in order
     okCalls |-> 0,        \* vision-model calls that answered with text
     failed |-> 0,         \* vision-model calls that raised
     last |-> NoOutcome,   \* outcome of the latest vision-model call
     allEmpty |-> TRUE,    \* every answer so far was the empty string
     returned |-> <<>>,    \* what process_image_with_gemini returned, if it did
     raised |-> <<>>,      \* what process_image_with_gemini raised, if it did
     tts |-> <<>>,         \* text of each gTTS call, in order
     ttsOut |-> <<>>]      \* outcome of each gTTS call, in order

\* No response sent yet.
NoResponse ==
    [status |-> 0, media |-> None, detail |-> None, body |-> <<>>,
     headers |-> {}, disposition |-> None, text_value |-> <<>>]

\* --------------------------------------------------------- handler code
\* str(e): the message of a plain exception; Starlette renders an
\* HTTPException as "<status_code>: <detail>".
Str_Generic(e) == "Internal Server Error"

Str(e) ==
    IF e.type = "HTTPException"
    THEN CASE e.status_code = 400 -> "400: No image file provided"
           [] e.status_code = 500 -> "500: AI returned empty response"
    ELSE e.msg

\* except Exception as e: raise HTTPException(status_code=500, detail=str(e))
CatchAll(e) == HTTPException(500, Str(e))

\* What FastAPI sends for a raised HTTPException.
ErrorResponse(e) ==
    [status |-> e.status_code, media |-> "application/json", detail |-> e.msg,
     body |-> <<>>, headers |-> {}, disposition |-> None, text_value |-> <<>>]

\* The header carrying the description: X-Amharic-Text or X-Tigrinya-Text.
TextHeader(ep) == IF ep = "/api-am" THEN "X-Amharic-Text" ELSE "X-Tigrinya-Text"

Disposition(ep) ==
    IF ep = "/api-am" THEN "attachment; filename=rayee_am.mp3"
    ELSE "attachment; filename=rayee_ti.mp3"

\* The bytes gTTS writes for a text; both handlers pass lang='am'.
Audio(spoken) == <<"mp3", "am">> \o spoken

\* StreamingResponse(audio_buffer, media_type="audio/mpeg", headers=...)
StreamingResponse(ep, text, spoken) ==
    [status |-> 200, media |-> "audio/mpeg", detail |-> None,
     body |-> Audio(spoken),
     headers |-> {"Content-Disposition", TextHeader(ep), "X-English-Text"},
     disposition |-> Disposition(ep), text_value |-> EncodeHeader(text)]

\* `if not amharic_text` / `if not tigrinya_text`
IsEmptyText_Never(text) == FALSE

IsEmptyText(text) == text = <<>>

\* gTTS(text=...) refuses an empty text ("No text to speak"); otherwise the
\* outcome is the network's: "ok" or an error.
GttsOutcome(spoken, net) == IF spoken = <<>> THEN "No text to speak" ELSE net

\* Steps 3 and 4 of a handler, after gTTS has run with outcome out.
AfterTts_Partial(ep, text, spoken, out) ==
    IF out = "ok" THEN StreamingResponse(ep, text, spoken)
    ELSE [StreamingResponse(ep, text, spoken) EXCEPT !.body = <<>>]

AfterTts(ep, text, spoken, out) ==
    IF out = "ok" THEN StreamingResponse(ep, text, spoken)
    ELSE ErrorResponse(CatchAll(Exception(out)))

\* return response.text.strip()
ResponseText_Unstripped(raw) == raw

ResponseText(raw) == Strip(raw)

\* for index, api_key in enumerate(VALID_API_KEYS): the key of iteration i,
\* counted from 0.
KeyAt_Reversed(i) == VALID_API_KEYS[Len(VALID_API_KEYS) - i]

KeyAt(i) == VALID_API_KEYS[i + 1]

\* genai.configure(api_key=api_key): the new process-wide key.
ConfigureKey_Once(api_key) ==
    IF genai_api_key = None THEN api_key ELSE genai_api_key

ConfigureKey(api_key) == api_key

\* last_error = e
RecordError_First(old, e) == IF old = NoError THEN e ELSE old

RecordError(old, e) == e

\* raise last_error or Exception("All API keys failed to generate a response.")
Exhausted(le) ==
    IF le # NoError THEN le
    ELSE Exception("All API keys failed to generate a response.")

\* ------------------------------------------------------------- startup
Environments == {e \in [Slots -> UNION {SlotValues(i) : i \in Slots}] :
                    \A i \in Slots : e[i] \in SlotValues(i)}

\* Lines 41-56 run once, at import.
Init ==
    /\ environ \in Environments
    /\ API_KEYS = <<>>
    /\ VALID_API_KEYS = <<>>
    /\ phase = "boot"
    /\ genai_api_key = None
    /\ pc = [r \in Requests |-> "idle"]
    /\ filename = [r \in Requests |-> None]
    /\ index = [r \in Requests |-> 0]
    /\ last_error = [r \in Requests |-> NoError]
    /\ response = [r \in Requests |-> NoResponse]
    /\ wire = [r \in Requests |-> NoTraffic]

\* Lines 41-56: build API_KEYS, filter it, refuse to start without a key.
LoadKeys ==
    /\ phase = "boot"
    /\ LET keys == [i \in Slots |-> environ[i]]
           valid == FilterKeys(keys)
       IN  /\ API_KEYS' = keys
           /\ VALID_API_KEYS' = valid
           /\ phase' = IF valid = <<>> THEN "startup_failed" ELSE "serving"
    /\ UNCHANGED <<environ, genai_api_key, pc, filename, index, last_error,
                   response, wire>>

\* ------------------------------------------------------------ requests
\* The handler ends: resp is sent, the locals of the call are gone.
Respond(r, resp) ==
    /\ pc' = [pc EXCEPT ![r] = "done"]
    /\ response' = [response EXCEPT ![r] = resp]
    /\ index' = [index EXCEPT ![r] = 0]
    /\ last_error' = [last_error EXCEPT ![r] = NoError]

\* One pass of the loop of process_image_with_gemini at iteration i, with
\* last_error le and the traffic w seen so far: configure the key, build the
\* model, issue the call and suspend; past the last key, raise.
Attempt(r, i, le, w) ==
    IF i < Len(VALID_API_KEYS)
    THEN LET configured == ConfigureKey(KeyAt(i))
         IN  /\ genai_api_key' = configured
             /\ wire' = [wire EXCEPT ![r] =
                            [w EXCEPT !.calls = Append(@, configured)]]
             /\ pc' = [pc EXCEPT ![r] = "awaiting"]
             /\ index' = [index EXCEPT ![r] = i]
             /\ last_error' = [last_error EXCEPT ![r] = le]
             /\ UNCHANGED response
    ELSE /\ Respond(r, ErrorResponse(CatchAll(Exhausted(le))))
         /\ wire' = [wire EXCEPT ![r] =
                        [w EXCEPT !.raised = Append(@, Exhausted(le))]]
         /\ UNCHANGED genai_api_key

\* POST /api-am or /api-ti arrives: the filename check, then image.read().
Receive(r, fname) ==
    /\ phase = "serving"
    /\ pc[r] = "idle"
    /\ filename' = [filename EXCEPT ![r] = fname]
    /\ IF fname = ""
       THEN Respond(r, ErrorResponse(CatchAll(
                HTTPException(400, "No image file provided"))))
       ELSE /\ pc' = [pc EXCEPT ![r] = "reading"]
            /\ UNCHANGED <<response, index, last_error>>
    /\ UNCHANGED <<environ, API_KEYS, VALID_API_KEYS, phase, genai_api_key, wire>>

\* image.read() completes: process_image_with_gemini starts its loop.
ReadDone(r) ==
    /\ pc[r] = "reading"
    /\ Attempt(r, 0, NoError, wire[r])
    /\ UNCHANGED <<environ, API_KEYS, VALID_API_KEYS, phase, filename>>

\* generate_content_async (or response.text) raises e: next key, or give up.
UpstreamFail(r, e) ==
    /\ pc[r] = "awaiting"
    /\ Attempt(r, index[r] + 1, RecordError(last_error[r], Exception(e)),
               [wire[r] EXCEPT !.failed = @ + 1,
                               !.last = Outcome(FALSE, <<>>, e),
                               !.allEmpty = FALSE])
    /\ UNCHANGED <<environ, API_KEYS, VALID_API_KEYS, phase, filename>>

\* generate_content_async answers raw: the loop returns raw.strip(), the
\* handler checks it, sanitizes it, runs gTTS (network outcome net) and
\* responds.
UpstreamOk(r, raw, net) ==
    /\ pc[r] = "awaiting"
    /\ LET text == ResponseText(raw)
           spoken == clean_text_for_tts(text)
           out == GttsOutcome(spoken, net)
           seen == [wire[r] EXCEPT !.okCalls = @ + 1,
                                   !.last = Outcome(TRUE, raw, None),
                                   !.allEmpty = @ /\ raw = <<>>,
                                   !.returned = Append(@, text)]
       IN  IF IsEmptyText(text)
           THEN /\ Respond(r, ErrorResponse(CatchAll(
                        HTTPException(500, "AI returned empty response"))))
                /\ wire' = [wire EXCEPT ![r] = seen]
           ELSE /\ Respond(r, AfterTts(r, text, spoken, out))
                /\ wire' = [wire EXCEPT ![r] =
                               [seen EXCEPT !.tts = Append(@, spoken),
                                            !.ttsOut = Append(@, out)]]
    /\ UNCHANGED <<environ, API_KEYS, VALID_API_KEYS, phase, genai_api_key,
                   filename>>

\* The response has been delivered; the slot takes the next request.
Finish(r) ==
    /\ pc[r] = "done"
    /\ pc' = [pc EXCEPT ![r] = "idle"]
    /\ filename' = [filename EXCEPT ![r] = None]
    /\ response' = [response EXCEPT ![r] = NoResponse]
    /\ wire' = [wire EXCEPT ![r] = NoTraffic]
    /\ UNCHANGED <<environ, API_KEYS, VALID_API_KEYS, phase, genai_api_key,
                   index, last_error>>

Next ==
    \/ LoadKeys
    \/ \E r \in Requests, fname \in {"", "frame.jpg"} : Receive(r, fname)
    \/ \E r \in Requests : ReadDone(r)
    \/ \E r \in Requests, e \in UpstreamErrors : UpstreamFail(r, e)
    \/ \E r \in Requests, raw \in RawTexts, net \in {"ok"} \cup TtsErrors :
          UpstreamOk(r, raw, net)
    \/ \E r \in Requests : Finish(r)

Spec == Init /\ [][Next]_vars

\* ------------------------------------------------------------ properties
N == Len(VALID_API_KEYS)

\* t is raw without its leading and trailing whitespace.
IsTrimOf(raw, t) ==
    \E i \in 1..(Len(raw) + 1), j \in 0..Len(raw) :
        /\ t = SubSeq(raw, i, j)
        /\ \A k \in 1..Len(raw) : (k < i \/ k > j) => IsSpace(raw[k])
        /\ t # <<>> => ~IsSpace(t[1]) /\ ~IsSpace(t[Len(t)])

\* The first k credentials of the pool, in pool order.
FirstKeys(k) == [i \in 1..k |-> VALID_API_KEYS[i]]

\* C1: when the attempts with credentials 1..K-1 of a call failed and the
\* K-th answered, the call returned the K-th answer trimmed, made exactly K
\* upstream calls (K <= N) and used credentials 1..K in pool order, whatever
\* earlier requests did.
C1_FirstSuccessWins ==
    \A r \in Requests :
        wire[r].last.ok =>
            LET K == wire[r].failed + 1
            IN  /\ K <= N
                /\ Len(wire[r].calls) = K
                /\ wire[r].calls = FirstKeys(K)
                /\ wire[r].okCalls = 1
                /\ Len(wire[r].returned) = 1
                /\ IsTrimOf(wire[r].last.text, wire[r].returned[1])
                /\ wire[r].raised = <<>>

C1_Witness ==
    \E r \in Requests :
        /\ wire[r].last.ok
        /\ wire[r].failed = 2
        /\ N = 4
        /\ wire[r].returned = <<<<"a">>>>
        /\ genai_api_key # wire[r].calls[3]

\* C2: when every one of the N attempts of a call failed, the call raised
\* after exactly N upstream calls, and what the caller gets is the error of
\* the N-th attempt, not the generic exhaustion error.
C2_LastErrorSurfaces ==
    \A r \in Requests :
        (pc[r] = "done" /\ filename[r] # "" /\ wire[r].okCalls = 0) =>
            /\ wire[r].failed = N
            /\ Len(wire[r].calls) = N
            /\ wire[r].returned = <<>>
            /\ wire[r].raised = <<Exception(wire[r].last.err)>>
            /\ wire[r].last.err \in UpstreamErrors
            /\ response[r].status = 500
            /\ response[r].detail = wire[r].last.err

C2_Witness ==
    \E r \in Requests :
        /\ pc[r] = "done"
        /\ filename[r] # ""
        /\ wire[r].okCalls = 0
        /\ wire[r].failed = 3
        /\ response[r].detail = "connection reset"

\* C3: an upload whose filename is empty is answered with status 400 and
\* causes no vision-model call and no synthesizer call.
C3_EmptyFilename400 ==
    \A r \in Requests :
        (pc[r] = "done" /\ filename[r] = "") =>
            /\ response[r].status = 400
            /\ wire[r].calls = <<>>
            /\ wire[r].tts = <<>>

\* The state the requests share.
SharedState == <<API_KEYS, VALID_API_KEYS, genai_api_key>>

\* Every call a request issued in its i-th iteration carries the i-th
\* credential of the pool, and a suspended request has issued one call per
\* iteration so far.
Binding ==
    \A r \in Requests :
        /\ \A i \in 1..Len(wire[r].calls) :
              i <= N /\ wire[r].calls[i] = VALID_API_KEYS[i]
        /\ pc[r] = "awaiting" => Len(wire[r].calls) = index[r] + 1

\* C4, as stated: with interleaved requests every call of iteration i carries
\* the i-th credential, and no request writes the state the requests share.
C4_BindingSharedReadOnly ==
    [][phase = "serving" => (Binding' /\ SharedState' = SharedState)]_vars

\* C4, amended: with interleaved requests every call of iteration i carries
\* the i-th credential, although the requests share a writable genai key:
\* it is unset or one of the pool's credentials, whichever was configured
\* last.
C4_BindingHolds ==
    /\ Binding
    /\ genai_api_key \in {None} \cup {VALID_API_KEYS[i] : i \in 1..N}

C4_Witness ==
    \E r1 \in Requests, r2 \in Requests :
        /\ r1 # r2
        /\ pc[r1] = "awaiting" /\ index[r1] = 2
        /\ pc[r2] = "awaiting" /\ index[r2] = 0
        /\ genai_api_key = VALID_API_KEYS[1]

\* C5: when the vision model answers the empty string on every credential it
\* is asked with, the request ends with status 500 and the synthesizer is
\* never called.
C5_EmptyAnswersNoAudio ==
    \A r \in Requests :
        (pc[r] = "done" /\ wire[r].calls # <<>> /\ wire[r].allEmpty) =>
            /\ response[r].status = 500
            /\ response[r].body = <<>>
            /\ wire[r].tts = <<>>

C5_Witness ==
    \E r \in Requests :
        /\ pc[r] = "done" /\ wire[r].calls # <<>> /\ wire[r].allEmpty
        /\ N >= 2

\* The details an error response can carry.
ErrorDetails ==
    UpstreamErrors \cup TtsErrors \cup
    {"No text to speak", "400: No image file provided",
     "500: AI returned empty response",
     "All API keys failed to generate a response."}

\* C6: a request answered with audio/mpeg had exactly one successful
\* vision-model attempt and exactly one synthesizer call, whose audio is
\* the body; a request answered with an error carries no audio and no
\* description; an unanswered request has sent nothing.
C6_OneDescriptionOneAudio ==
    \A r \in Requests :
        /\ pc[r] # "done" => response[r] = NoResponse
        /\ (pc[r] = "done" /\ response[r].media = "audio/mpeg") =>
              /\ response[r].status = 200
              /\ wire[r].okCalls = 1
              /\ Len(wire[r].returned) = 1
              /\ Len(wire[r].tts) = 1
              /\ wire[r].ttsOut = <<"ok">>
              /\ response[r].body = Audio(wire[r].tts[1])
              /\ response[r].text_value = EncodeHeader(wire[r].returned[1])
        /\ (pc[r] = "done" /\ response[r].media # "audio/mpeg") =>
              /\ response[r].status \in {400, 500}
              /\ response[r].body = <<>>
              /\ response[r].headers = {}
              /\ response[r].text_value = <<>>
              /\ response[r].detail \in ErrorDetails

C6_Witness ==
    \E r \in Requests :
        /\ pc[r] = "done"
        /\ response[r].media = "audio/mpeg"
        /\ wire[r].failed = 1

\* C7: when synthesis fails after a description was obtained, the request
\* ends with status 500 whose detail is the synthesis error's message, the
\* synthesizer was called once, no further vision-model call was made and
\* the description is in no header and no body.
C7_SynthesisFailure ==
    \A r \in Requests :
        (wire[r].ttsOut # <<>> /\ wire[r].ttsOut[1] # "ok") =>
            /\ pc[r] = "done"
            /\ response[r].status = 500
            /\ response[r].detail = wire[r].ttsOut[1]
            /\ Len(wire[r].tts) = 1
            /\ Len(wire[r].ttsOut) = 1
            /\ wire[r].okCalls = 1
            /\ Len(wire[r].calls) = wire[r].failed + 1
            /\ response[r].headers = {}
            /\ response[r].text_value = <<>>
            /\ response[r].body = <<>>

C7_Witness ==
    \E r \in Requests :
        /\ wire[r].ttsOut = <<"tts failed">>
        /\ wire[r].returned = <<<<"a">>>>
        /\ wire[r].failed = 1

\* The slots that hold a non-empty string.
NonEmptySlots == {i \in Slots : environ[i] # None /\ environ[i] # ""}

\* The values of the non-empty slots, in slot order.
NonEmptyInOrder ==
    [j \in 1..Cardinality(NonEmptySlots) |->
        environ[CHOOSE i \in NonEmptySlots :
                    Cardinality({m \in NonEmptySlots : m <= i}) = j]]

\* C8: once loaded, the pool is the non-empty slots in slot order; the
\* process serves iff that is non-empty and fails to start otherwise; no
\* request is handled before loading or after a failed start, and no
\* request changes the pool.
C8_PoolIsNonEmptySlots ==
    /\ phase # "boot" => VALID_API_KEYS = NonEmptyInOrder
    /\ phase = "serving" => NonEmptySlots # {}
    /\ phase = "startup_failed" => NonEmptySlots = {}
    /\ phase # "serving" => \A r \in Requests : pc[r] = "idle"

C8_Witness ==
    /\ phase = "serving"
    /\ environ[1] = "" /\ environ[2] = "k2" /\ environ[3] = None
    /\ environ[4] = "k4" /\ environ[5] = ""
    /\ \E r \in Requests : pc[r] = "done" /\ wire[r].calls = <<"k2", "k4">>

\* C9: when the first attempt to answer is the K-th and its text is empty
\* after trimming, the call returns that empty text after exactly K upstream
\* calls, credentials K+1..N are not tried, and the request ends with
\* status 500.
C9_EmptyAnswerIsTerminal ==
    \A r \in Requests :
        (wire[r].last.ok /\ \A k \in 1..Len(wire[r].last.text) :
                                IsSpace(wire[r].last.text[k])) =>
            /\ wire[r].returned = <<<<>>>>
            /\ Len(wire[r].calls) = wire[r].failed + 1
            /\ \A i \in 1..Len(wire[r].calls) :
                  wire[r].calls[i] \in {VALID_API_KEYS[m] :
                                           m \in 1..(wire[r].failed + 1)}
            /\ pc[r] = "done"
            /\ response[r].status = 500

C9_Witness ==
    \E r \in Requests :
        /\ wire[r].last.ok
        /\ wire[r].last.text = <<" ">>
        /\ wire[r].failed = 1
        /\ N = 3

\* C10: the sanitized text handed to the synthesizer is never empty.
C10_SpokenTextNonEmpty ==
    \A r \in Requests :
        \A i \in 1..Len(wire[r].tts) : wire[r].tts[i] # <<>>

====
